---- MODULE Spec2Model ----
(***************************************************************************)
(* Model of lemon::asset and lemon::extended_asset (asset.hpp): a signed   *)
(* fixed-point amount bound to a symbol, with checked arithmetic, and the  *)
(* same value tagged with the owning contract.                             *)
(*                                                                         *)
(* Machine integers are modelled at a reduced word size: int64_t is a      *)
(* Width-bit two's-complement integer; int128_t holds every product of two *)
(* of them exactly, so a product is formed without reduction.              *)
(* Every program constant that the source derives from the word size       *)
(* (max_amount = 2^62 - 1, numeric_limits<int64_t>::min()) is derived from *)
(* Width the same way, so the boundaries keep their relative positions.    *)
(***************************************************************************)
EXTENDS Integers, Sequences, FiniteSets

VARIABLES a, ea, op, lhs, rhs, ret, err, ub

vars == <<a, ea, op, lhs, rhs, ret, err, ub>>

-----------------------------------------------------------------------------
(* Machine integers *)

\* bits of int64_t in the model
Width == 6

MinInt64 == -(2^(Width - 1))

MaxInt64 == 2^(Width - 1) - 1

Int64 == MinInt64..MaxInt64

\* static constexpr int64_t max_amount = (1LL << 62) - 1
max_amount == 2^(Width - 2) - 1

Abs(x) == IF x < 0 THEN -x ELSE x

\* C++ signed division: the quotient with the fractional part discarded
CDiv(x, y) ==
    IF y > 0
    THEN IF x >= 0 THEN x \div y ELSE -((-x) \div y)
    ELSE IF x >= 0 THEN -(x \div (-y)) ELSE (-x) \div (-y)

\* C++ signed remainder: (x / y) * y + x % y == x
CMod(x, y) == x - CDiv(x, y) * y

\* (int64_t)tmp : conversion of a wider integer, modulo 2^Width
Narrow64(x) == ((x - MinInt64) % (2^Width)) + MinInt64

-----------------------------------------------------------------------------
(* symbol, symbol_code, name *)

UpperCase == {"A", "B", "C", "D", "E", "F", "G", "H", "I", "J", "K", "L", "M",
              "N", "O", "P", "Q", "R", "S", "T", "U", "V", "W", "X", "Y", "Z"}

\* longest symbol code
MaxCodeLen == 7

\* largest precision whose power of ten is an int64_t (18 for 64 bits)
max_precision == CHOOSE p \in 0..Width : 10^p <= MaxInt64 /\ 10^(p + 1) > MaxInt64

\* symbol() : precision 0 and the empty code
DefaultSymbol == [precision |-> 0, code |-> <<>>]

SYS == [precision |-> 1, code |-> <<"S", "Y", "S">>]

TOK == [precision |-> 0, code |-> <<"T", "O", "K">>]

\* a symbol whose code is not upper case
BadSymbol == [precision |-> 1, code |-> <<"b", "a", "d">>]

Symbols == {DefaultSymbol, SYS, TOK, BadSymbol}

symbol_is_valid(s) ==
    /\ Len(s.code) >= 1
    /\ Len(s.code) <= MaxCodeLen
    /\ \A i \in 1..Len(s.code) : s.code[i] \in UpperCase
    /\ s.precision <= max_precision

\* name() has value 0
DefaultName == 0

Names == {DefaultName, 1}

-----------------------------------------------------------------------------
(* lemon::check and its messages *)

NoErr == ""

MsgMagnitude == "magnitude of asset amount must be less than 2^62"

MsgInvalidSymbol == "invalid symbol name"

MsgSubSymbol == "attempt to subtract asset with different symbol"

MsgAddSymbol == "attempt to add asset with different symbol"

MsgCmpSymbol == "comparison of assets with different symbols is not allowed"

MsgDivZero == "divide by zero"

MsgDivOverflow == "signed division overflow"

MsgTypeMismatch == "type mismatch"

RangeErrors == {MsgMagnitude, "subtraction underflow", "subtraction overflow",
                "addition underflow", "addition overflow",
                "multiplication overflow", "multiplication underflow"}

SymbolMismatchErrors == {MsgSubSymbol, MsgAddSymbol, MsgCmpSymbol}

-----------------------------------------------------------------------------
(* struct asset *)

\* asset() {} : amount = 0 and the default symbol
DefaultAsset == [amount |-> 0, symbol |-> DefaultSymbol]

is_amount_within_range(x) == -max_amount <= x.amount /\ x.amount <= max_amount

is_valid(x) == is_amount_within_range(x) /\ symbol_is_valid(x.symbol)

\* An outcome of a member function: the message of the check that failed
\* (NoErr if none), the object it worked on as it is at the return or at the
\* failing check, and whether it executed undefined behaviour.
Outcome(e, x, u) == [err |-> e, obj |-> x, ub |-> u]

\* undefined behaviour on the stored amount: any amount, checks kept or dropped
Undefined(x, msgs) ==
    {Outcome(e, [x EXCEPT !.amount = v], TRUE) : e \in msgs \cup {NoErr}, v \in Int64}

\* asset( int64_t a, class symbol s )
asset_ctor(v, s) ==
    LET r == [amount |-> v, symbol |-> s]
    IN  IF ~is_amount_within_range(r) THEN Outcome(MsgMagnitude, r, FALSE)
        ELSE IF ~symbol_is_valid(r.symbol) THEN Outcome(MsgInvalidSymbol, r, FALSE)
        ELSE Outcome(NoErr, r, FALSE)

\* void set_amount( int64_t a )
set_amount(x, v) ==
    LET r == [x EXCEPT !.amount = v]
    IN  IF ~is_amount_within_range(r) THEN Outcome(MsgMagnitude, r, FALSE)
        ELSE Outcome(NoErr, r, FALSE)

\* operator-() taking the one's complement instead of the negative
asset_neg_complement(x) ==
    {Outcome(NoErr, [x EXCEPT !.amount = -x.amount - 1], FALSE)}

\* asset operator-()const
asset_neg(x) ==
    IF -x.amount \in Int64
    THEN {Outcome(NoErr, [x EXCEPT !.amount = -x.amount], FALSE)}
    ELSE Undefined(x, {})

\* operator-= without its "subtraction underflow" check
asset_sub_assign_no_underflow(x, b) ==
    IF b.symbol # x.symbol THEN {Outcome(MsgSubSymbol, x, FALSE)}
    ELSE IF x.amount - b.amount \notin Int64
         THEN Undefined(x, {"subtraction overflow"})
    ELSE LET r == [x EXCEPT !.amount = x.amount - b.amount]
         IN  IF ~(r.amount <= max_amount) THEN {Outcome("subtraction overflow", r, FALSE)}
             ELSE {Outcome(NoErr, r, FALSE)}

\* asset& operator-=( const asset& a )
asset_sub_assign(x, b) ==
    IF b.symbol # x.symbol THEN {Outcome(MsgSubSymbol, x, FALSE)}
    ELSE IF x.amount - b.amount \notin Int64
         THEN Undefined(x, {"subtraction underflow", "subtraction overflow"})
    ELSE LET r == [x EXCEPT !.amount = x.amount - b.amount]
         IN  IF ~(-max_amount <= r.amount) THEN {Outcome("subtraction underflow", r, FALSE)}
             ELSE IF ~(r.amount <= max_amount) THEN {Outcome("subtraction overflow", r, FALSE)}
             ELSE {Outcome(NoErr, r, FALSE)}

\* operator+= without its "addition overflow" check
asset_add_assign_no_overflow(x, b) ==
    IF b.symbol # x.symbol THEN {Outcome(MsgAddSymbol, x, FALSE)}
    ELSE IF x.amount + b.amount \notin Int64
         THEN Undefined(x, {"addition underflow"})
    ELSE LET r == [x EXCEPT !.amount = x.amount + b.amount]
         IN  IF ~(-max_amount <= r.amount) THEN {Outcome("addition underflow", r, FALSE)}
             ELSE {Outcome(NoErr, r, FALSE)}

\* asset& operator+=( const asset& a )
asset_add_assign(x, b) ==
    IF b.symbol # x.symbol THEN {Outcome(MsgAddSymbol, x, FALSE)}
    ELSE IF x.amount + b.amount \notin Int64
         THEN Undefined(x, {"addition underflow", "addition overflow"})
    ELSE LET r == [x EXCEPT !.amount = x.amount + b.amount]
         IN  IF ~(-max_amount <= r.amount) THEN {Outcome("addition underflow", r, FALSE)}
             ELSE IF ~(r.amount <= max_amount) THEN {Outcome("addition overflow", r, FALSE)}
             ELSE {Outcome(NoErr, r, FALSE)}

\* operator*= forming the product in int64_t, where it wraps
asset_mul_assign_narrow(x, s) ==
    LET tmp == Narrow64(x.amount * s)
    IN  IF ~(tmp <= max_amount) THEN Outcome("multiplication overflow", x, FALSE)
        ELSE IF ~(tmp >= -max_amount) THEN Outcome("multiplication underflow", x, FALSE)
        ELSE Outcome(NoErr, [x EXCEPT !.amount = tmp], FALSE)

\* asset& operator*=( int64_t a ) : the product is formed in int128_t
asset_mul_assign(x, s) ==
    LET tmp == x.amount * s
    IN  IF ~(tmp <= max_amount) THEN Outcome("multiplication overflow", x, FALSE)
        ELSE IF ~(tmp >= -max_amount) THEN Outcome("multiplication underflow", x, FALSE)
        ELSE Outcome(NoErr, [x EXCEPT !.amount = Narrow64(tmp)], FALSE)

\* operator/= rounding the quotient down instead of toward zero
asset_div_assign_floor(x, s) ==
    IF ~(s # 0) THEN Outcome(MsgDivZero, x, FALSE)
    ELSE IF x.amount = MinInt64 /\ s = -1 THEN Outcome(MsgDivOverflow, x, FALSE)
    ELSE Outcome(NoErr, [x EXCEPT !.amount =
                            IF s > 0 THEN x.amount \div s ELSE (-x.amount) \div (-s)], FALSE)

\* asset& operator/=( int64_t a )
asset_div_assign(x, s) ==
    IF ~(s # 0) THEN Outcome(MsgDivZero, x, FALSE)
    ELSE IF x.amount = MinInt64 /\ s = -1 THEN Outcome(MsgDivOverflow, x, FALSE)
    ELSE Outcome(NoErr, [x EXCEPT !.amount = CDiv(x.amount, s)], FALSE)

\* friend asset operator+( const asset& a, const asset& b ) : result = a; result += b
asset_add(x, b) == asset_add_assign(x, b)

\* friend asset operator-( const asset& a, const asset& b ) : result = a; result -= b
asset_sub(x, b) == asset_sub_assign(x, b)

\* friend asset operator*( const asset& a, int64_t b ) : result = a; result *= b
asset_mul(x, s) == asset_mul_assign(x, s)

\* friend asset operator*( int64_t b, const asset& a ) : result = a; result *= b
asset_mul_rev(s, x) == asset_mul_assign(x, s)

\* friend asset operator/( const asset& a, int64_t b ) : result = a; result /= b
asset_div(x, s) == asset_div_assign(x, s)

\* The outcome of a function returning a number or a boolean.
Value(e, v, u) == [err |-> e, val |-> v, ub |-> u]

\* friend int64_t operator/( const asset& a, const asset& b )
asset_div_asset(x, b) ==
    IF ~(b.amount # 0) THEN {Value(MsgDivZero, 0, FALSE)}
    ELSE IF x.symbol # b.symbol THEN {Value(MsgCmpSymbol, 0, FALSE)}
    ELSE IF x.amount = MinInt64 /\ b.amount = -1 THEN {Value(NoErr, v, TRUE) : v \in Int64}
    ELSE {Value(NoErr, CDiv(x.amount, b.amount), FALSE)}

\* friend bool operator==( const asset& a, const asset& b )
asset_eq(x, b) ==
    IF x.symbol # b.symbol THEN Value(MsgCmpSymbol, FALSE, FALSE)
    ELSE Value(NoErr, x.amount = b.amount, FALSE)

\* friend bool operator!=( const asset& a, const asset& b ) : !( a == b )
asset_ne(x, b) ==
    LET e == asset_eq(x, b)
    IN  IF e.err # NoErr THEN e ELSE Value(NoErr, ~e.val, FALSE)

\* friend bool operator<( const asset& a, const asset& b )
asset_lt(x, b) ==
    IF x.symbol # b.symbol THEN Value(MsgCmpSymbol, FALSE, FALSE)
    ELSE Value(NoErr, x.amount < b.amount, FALSE)

\* friend bool operator<=( const asset& a, const asset& b )
asset_le(x, b) ==
    IF x.symbol # b.symbol THEN Value(MsgCmpSymbol, FALSE, FALSE)
    ELSE Value(NoErr, x.amount <= b.amount, FALSE)

\* friend bool operator>( const asset& a, const asset& b )
asset_gt(x, b) ==
    IF x.symbol # b.symbol THEN Value(MsgCmpSymbol, FALSE, FALSE)
    ELSE Value(NoErr, x.amount > b.amount, FALSE)

\* friend bool operator>=( const asset& a, const asset& b )
asset_ge(x, b) ==
    IF x.symbol # b.symbol THEN Value(MsgCmpSymbol, FALSE, FALSE)
    ELSE Value(NoErr, x.amount >= b.amount, FALSE)

-----------------------------------------------------------------------------
(* std::string to_string()const.  A string is a sequence of characters. *)

\* the characters '0' - 9 .. '0' + 9, for (change % 10) + '0'
CharTable == <<"'", "(", ")", "*", "+", ",", "-", ".", "/",
               "0", "1", "2", "3", "4", "5", "6", "7", "8", "9">>

CharOf(d) == CharTable[d + 10]

RECURSIVE Decimal(_)
\* the decimal digits of n >= 0
Decimal(n) == IF n < 10 THEN <<CharOf(n)>> ELSE Decimal(n \div 10) \o <<CharOf(n % 10)>>

\* snprintf "%lld"
FormatLld(v) == IF v < 0 THEN <<"-">> \o Decimal(-v) ELSE Decimal(v)

RECURSIVE pow_loop(_, _)
\* while( p > 0 ) { p10 *= 10; --p; }
pow_loop(p, p10) == IF p > 0 THEN pow_loop(p - 1, p10 * 10) ELSE p10

RECURSIVE fraction_loop(_, _, _)
\* for( i = p - 1; i >= 0; --i ) { fraction[i] = (change % 10) + '0'; change /= 10; }
fraction_loop(change, i, fraction) ==
    IF i >= 0
    THEN fraction_loop(CDiv(change, 10), i - 1, <<CharOf(CMod(change, 10))>> \o fraction)
    ELSE fraction

symbol_code_to_string(s) == s.code

to_string(x) ==
    LET p        == x.symbol.precision
        p10      == pow_loop(p, 1)
        negative == x.amount < 0
        invert   == IF x.amount < 0 THEN -1 ELSE 1
        change   == CMod(x.amount, p10) * invert
        fraction == fraction_loop(change, p - 1, <<>>)
    IN  (IF negative THEN <<"-">> ELSE <<>>)
        \o FormatLld(CDiv(x.amount, p10)) \o <<".">> \o fraction \o <<" ">>
        \o symbol_code_to_string(x.symbol)

-----------------------------------------------------------------------------
(* struct extended_asset *)

\* extended_asset() = default
DefaultExtendedAsset == [quantity |-> DefaultAsset, contract |-> DefaultName]

\* extended_symbol get_extended_symbol()const
get_extended_symbol(x) == [symbol |-> x.quantity.symbol, contract |-> x.contract]

\* extended_asset( int64_t v, extended_symbol s )
extended_asset_ctor(v, s) ==
    LET q == asset_ctor(v, s.symbol)
    IN  Outcome(q.err, [quantity |-> q.obj, contract |-> s.contract], FALSE)

\* extended_asset( asset a, name c )
extended_asset_from(x, c) == [quantity |-> x, contract |-> c]

\* extended_asset operator-()const
extended_asset_neg(x) ==
    {Outcome(o.err, [quantity |-> o.obj, contract |-> x.contract], o.ub) :
        o \in asset_neg(x.quantity)}

\* friend extended_asset operator - ( const extended_asset& a, const extended_asset& b )
extended_asset_sub(x, b) ==
    IF x.contract # b.contract THEN {Outcome(MsgTypeMismatch, x, FALSE)}
    ELSE {Outcome(o.err, [quantity |-> o.obj, contract |-> x.contract], o.ub) :
            o \in asset_sub(x.quantity, b.quantity)}

\* friend extended_asset operator + ( const extended_asset& a, const extended_asset& b )
extended_asset_add(x, b) ==
    IF x.contract # b.contract THEN {Outcome(MsgTypeMismatch, x, FALSE)}
    ELSE {Outcome(o.err, [quantity |-> o.obj, contract |-> x.contract], o.ub) :
            o \in asset_add(x.quantity, b.quantity)}

\* friend extended_asset& operator+=( extended_asset& a, const extended_asset& b )
extended_asset_add_assign(x, b) ==
    IF x.contract # b.contract THEN {Outcome(MsgTypeMismatch, x, FALSE)}
    ELSE {Outcome(o.err, [x EXCEPT !.quantity = o.obj], o.ub) :
            o \in asset_add_assign(x.quantity, b.quantity)}

\* friend extended_asset& operator-=( extended_asset& a, const extended_asset& b )
extended_asset_sub_assign(x, b) ==
    IF x.contract # b.contract THEN {Outcome(MsgTypeMismatch, x, FALSE)}
    ELSE {Outcome(o.err, [x EXCEPT !.quantity = o.obj], o.ub) :
            o \in asset_sub_assign(x.quantity, b.quantity)}

\* friend bool operator<( const extended_asset& a, const extended_asset& b )
extended_asset_lt(x, b) ==
    IF x.contract # b.contract THEN Value(MsgTypeMismatch, FALSE, FALSE)
    ELSE asset_lt(x.quantity, b.quantity)

\* friend bool operator==( ... ) : std::tie(a.quantity, a.contract) == std::tie(b.quantity, b.contract)
\* the tuples are compared element by element, the quantities first
extended_asset_eq(x, b) ==
    LET q == asset_eq(x.quantity, b.quantity)
    IN  IF q.err # NoErr THEN q
        ELSE Value(NoErr, q.val /\ x.contract = b.contract, FALSE)

\* friend bool operator!=( ... ) : std::tie(...) != std::tie(...), that is !(t == u)
extended_asset_ne(x, b) ==
    LET e == extended_asset_eq(x, b)
    IN  IF e.err # NoErr THEN e ELSE Value(NoErr, ~e.val, FALSE)

\* friend bool operator<=( const extended_asset& a, const extended_asset& b )
extended_asset_le(x, b) ==
    IF x.contract # b.contract THEN Value(MsgTypeMismatch, FALSE, FALSE)
    ELSE asset_le(x.quantity, b.quantity)

\* friend bool operator>=( const extended_asset& a, const extended_asset& b )
extended_asset_ge(x, b) ==
    IF x.contract # b.contract THEN Value(MsgTypeMismatch, FALSE, FALSE)
    ELSE asset_ge(x.quantity, b.quantity)

-----------------------------------------------------------------------------
(* The invocation: one asset object a and one extended_asset object ea, the *)
(* last call (op, the receiver before it in lhs, its argument in rhs), what *)
(* it returned (ret) and the message of the failed check (err).  A failed   *)
(* check ends the invocation: no action is enabled once err # NoErr, and a  *)
(* and ea are the objects as they were when the check failed.  So does a    *)
(* call that executes undefined behaviour (ub).  A call that                *)
(* returns is followed by the caller's next statement: it assigns the       *)
(* returned value to its object (Assign) or drops it (Continue).            *)

Arg(q, c, n) == [a |-> q, c |-> c, n |-> n]

NoArg == Arg(DefaultAsset, DefaultName, 0)

RetVoid ==
    [kind |-> "void", a |-> DefaultAsset, c |-> DefaultName, n |-> 0, b |-> FALSE, s |-> <<>>]

RetAsset(x) == [RetVoid EXCEPT !.kind = "asset", !.a = x]

RetExt(x) == [RetVoid EXCEPT !.kind = "extended_asset", !.a = x.quantity, !.c = x.contract]

RetInt(n) == [RetVoid EXCEPT !.kind = "int", !.n = n]

RetBool(b) == [RetVoid EXCEPT !.kind = "bool", !.b = b]

RetString(s) == [RetVoid EXCEPT !.kind = "string", !.s = s]

\* the assets asset() and asset(v, s) build
OperandAssets ==
    {DefaultAsset} \cup
    {o.obj : o \in {c \in {asset_ctor(v, s) : v \in Int64, s \in Symbols} : c.err = NoErr}}

\* an asset read from its serialised form, or whose public amount was written
RawAssets == [amount : Int64, symbol : {DefaultSymbol, SYS, TOK}]

\* no call has returned since the caller's last statement
Idle == "idle"

\* no check has failed, and nothing undefined has been executed
Running == err = NoErr /\ ~ub

Ready == Running /\ op = Idle

Init ==
    /\ a = DefaultAsset
    /\ ea = DefaultExtendedAsset
    /\ op = Idle
    /\ lhs = NoArg
    /\ rhs = NoArg
    /\ ret = RetVoid
    /\ err = NoErr
    /\ ub = FALSE

InitRaw ==
    /\ a \in RawAssets
    /\ ea = DefaultExtendedAsset
    /\ op = Idle
    /\ lhs = NoArg
    /\ rhs = NoArg
    /\ ret = RetVoid
    /\ err = NoErr
    /\ ub = FALSE

\* a member function that works on the object a itself
InPlace(name, arg, outs) ==
    /\ Ready
    /\ \E o \in outs :
          /\ a' = o.obj
          /\ err' = o.err
          /\ ub' = o.ub
    /\ op' = name
    /\ lhs' = Arg(a, DefaultName, 0)
    /\ rhs' = arg
    /\ ret' = RetVoid
    /\ UNCHANGED ea

\* an operator that works on a copy of a and returns the copy
Returning(name, arg, outs) ==
    /\ Ready
    /\ \E o \in outs :
          /\ ret' = IF o.err = NoErr THEN RetAsset(o.obj) ELSE RetVoid
          /\ err' = o.err
          /\ ub' = o.ub
    /\ op' = name
    /\ lhs' = Arg(a, DefaultName, 0)
    /\ rhs' = arg
    /\ UNCHANGED <<a, ea>>

\* an operator that returns a boolean
Comparing(name, arg, o) ==
    /\ Ready
    /\ ret' = IF o.err = NoErr THEN RetBool(o.val) ELSE RetVoid
    /\ err' = o.err
    /\ ub' = o.ub
    /\ op' = name
    /\ lhs' = Arg(a, DefaultName, 0)
    /\ rhs' = arg
    /\ UNCHANGED <<a, ea>>

\* a = asset()
DefaultConstruct ==
    /\ Ready
    /\ a' = DefaultAsset
    /\ op' = "asset()"
    /\ lhs' = NoArg
    /\ rhs' = NoArg
    /\ ret' = RetVoid
    /\ UNCHANGED <<ea, err, ub>>

\* a = asset(v, s) : a is assigned only if the constructor returns
Construct ==
    /\ Ready
    /\ \E v \in Int64, s \in Symbols :
          LET o == asset_ctor(v, s)
          IN  /\ a' = IF o.err = NoErr THEN o.obj ELSE a
              /\ err' = o.err
              /\ rhs' = Arg(o.obj, DefaultName, v)
    /\ op' = "asset(v,s)"
    /\ lhs' = NoArg
    /\ ret' = RetVoid
    /\ UNCHANGED <<ea, ub>>

SetAmount == \E v \in Int64 : InPlace("set_amount", Arg(DefaultAsset, DefaultName, v), {set_amount(a, v)})

Negate == Returning("-a", NoArg, asset_neg(a))

SubAssign == \E b \in OperandAssets : InPlace("-=", Arg(b, DefaultName, 0), asset_sub_assign(a, b))

AddAssign == \E b \in OperandAssets : InPlace("+=", Arg(b, DefaultName, 0), asset_add_assign(a, b))

Add == \E b \in OperandAssets : Returning("+", Arg(b, DefaultName, 0), asset_add(a, b))

Sub == \E b \in OperandAssets : Returning("-", Arg(b, DefaultName, 0), asset_sub(a, b))

MulAssign == \E s \in Int64 : InPlace("*=", Arg(DefaultAsset, DefaultName, s), {asset_mul_assign(a, s)})

Mul == \E s \in Int64 : Returning("*", Arg(DefaultAsset, DefaultName, s), {asset_mul(a, s)})

MulRev == \E s \in Int64 : Returning("s*", Arg(DefaultAsset, DefaultName, s), {asset_mul_rev(s, a)})

DivAssign == \E s \in Int64 : InPlace("/=", Arg(DefaultAsset, DefaultName, s), {asset_div_assign(a, s)})

Div == \E s \in Int64 : Returning("/", Arg(DefaultAsset, DefaultName, s), {asset_div(a, s)})

DivAssetBy(B) ==
    /\ Ready
    /\ \E b \in B : \E o \in asset_div_asset(a, b) :
          /\ ret' = IF o.err = NoErr THEN RetInt(o.val) ELSE RetVoid
          /\ err' = o.err
          /\ ub' = o.ub
          /\ rhs' = Arg(b, DefaultName, 0)
    /\ op' = "a/b"
    /\ lhs' = Arg(a, DefaultName, 0)
    /\ UNCHANGED <<a, ea>>

DivAsset == DivAssetBy(OperandAssets)

Eq == \E b \in OperandAssets : Comparing("==", Arg(b, DefaultName, 0), asset_eq(a, b))

Ne == \E b \in OperandAssets : Comparing("!=", Arg(b, DefaultName, 0), asset_ne(a, b))

Lt == \E b \in OperandAssets : Comparing("<", Arg(b, DefaultName, 0), asset_lt(a, b))

Le == \E b \in OperandAssets : Comparing("<=", Arg(b, DefaultName, 0), asset_le(a, b))

Gt == \E b \in OperandAssets : Comparing(">", Arg(b, DefaultName, 0), asset_gt(a, b))

Ge == \E b \in OperandAssets : Comparing(">=", Arg(b, DefaultName, 0), asset_ge(a, b))

ToString ==
    /\ Ready
    /\ ret' = RetString(to_string(a))
    /\ op' = "to_string"
    /\ lhs' = Arg(a, DefaultName, 0)
    /\ rhs' = NoArg
    /\ UNCHANGED <<a, ea, err, ub>>

\* a = r, the copy assignment of an asset a call returned
Assign ==
    /\ Running
    /\ op # Idle
    /\ ret.kind = "asset"
    /\ a' = ret.a
    /\ op' = Idle
    /\ lhs' = NoArg
    /\ rhs' = NoArg
    /\ ret' = RetVoid
    /\ UNCHANGED <<ea, err, ub>>

\* the caller goes on to its next statement
Continue ==
    /\ Running
    /\ op # Idle
    /\ op' = Idle
    /\ lhs' = NoArg
    /\ rhs' = NoArg
    /\ ret' = RetVoid
    /\ UNCHANGED <<a, ea, err, ub>>

Next ==
    \/ DefaultConstruct
    \/ Construct
    \/ SetAmount
    \/ Negate
    \/ SubAssign
    \/ AddAssign
    \/ Add
    \/ Sub
    \/ MulAssign
    \/ Mul
    \/ MulRev
    \/ DivAssign
    \/ Div
    \/ DivAsset
    \/ Eq
    \/ Ne
    \/ Lt
    \/ Le
    \/ Gt
    \/ Ge
    \/ ToString
    \/ Assign
    \/ Continue

Spec == Init /\ [][Next]_vars

-----------------------------------------------------------------------------
(* Division and rendering of an asset whose amount is any int64_t *)

DivAssetRaw == DivAssetBy(RawAssets)

NextRaw ==
    \/ DivAssign
    \/ Div
    \/ DivAssetRaw
    \/ Negate
    \/ ToString
    \/ Assign
    \/ Continue

SpecRaw == InitRaw /\ [][NextRaw]_vars

-----------------------------------------------------------------------------
(* The calls on the extended_asset object ea *)

\* the amounts at the edges of the range and around zero
EdgeAmounts == {-max_amount, -1, 0, 1, max_amount}

ExtOperands ==
    {extended_asset_from(x, c) : x \in {y \in OperandAssets : y.amount \in EdgeAmounts}, c \in Names}

ExtArg(x) == Arg(x.quantity, x.contract, 0)

\* an operator that works on the object ea itself
ExtInPlace(name, b, outs) ==
    /\ Ready
    /\ \E o \in outs :
          /\ ea' = o.obj
          /\ err' = o.err
          /\ ub' = o.ub
    /\ op' = name
    /\ lhs' = ExtArg(ea)
    /\ rhs' = ExtArg(b)
    /\ ret' = RetVoid
    /\ UNCHANGED a

\* an operator that returns a new extended_asset
ExtReturning(name, b, outs) ==
    /\ Ready
    /\ \E o \in outs :
          /\ ret' = IF o.err = NoErr THEN RetExt(o.obj) ELSE RetVoid
          /\ err' = o.err
          /\ ub' = o.ub
    /\ op' = name
    /\ lhs' = ExtArg(ea)
    /\ rhs' = ExtArg(b)
    /\ UNCHANGED <<a, ea>>

\* an operator that returns a boolean
ExtComparing(name, b, o) ==
    /\ Ready
    /\ ret' = IF o.err = NoErr THEN RetBool(o.val) ELSE RetVoid
    /\ err' = o.err
    /\ ub' = o.ub
    /\ op' = name
    /\ lhs' = ExtArg(ea)
    /\ rhs' = ExtArg(b)
    /\ UNCHANGED <<a, ea>>

\* ea = extended_asset(v, extended_symbol{s, c})
ExtConstruct ==
    /\ Ready
    /\ \E v \in Int64, s \in Symbols, c \in Names :
          LET o == extended_asset_ctor(v, [symbol |-> s, contract |-> c])
          IN  /\ ea' = IF o.err = NoErr THEN o.obj ELSE ea
              /\ err' = o.err
              /\ rhs' = Arg(o.obj.quantity, c, v)
    /\ op' = "extended_asset(v,s)"
    /\ lhs' = NoArg
    /\ ret' = RetVoid
    /\ UNCHANGED <<a, ub>>

\* ea = extended_asset(x, c)
ExtConstructFrom ==
    /\ Ready
    /\ \E x \in OperandAssets, c \in Names :
          /\ ea' = extended_asset_from(x, c)
          /\ rhs' = Arg(x, c, 0)
    /\ op' = "extended_asset(a,c)"
    /\ lhs' = NoArg
    /\ ret' = RetVoid
    /\ UNCHANGED <<a, err, ub>>

ExtNegate == ExtReturning("-ea", DefaultExtendedAsset, extended_asset_neg(ea))

ExtSub == \E b \in ExtOperands : ExtReturning("ext-", b, extended_asset_sub(ea, b))

ExtAdd == \E b \in ExtOperands : ExtReturning("ext+", b, extended_asset_add(ea, b))

ExtAddAssign == \E b \in ExtOperands : ExtInPlace("ext+=", b, extended_asset_add_assign(ea, b))

ExtSubAssign == \E b \in ExtOperands : ExtInPlace("ext-=", b, extended_asset_sub_assign(ea, b))

ExtLt == \E b \in ExtOperands : ExtComparing("ext<", b, extended_asset_lt(ea, b))

ExtEq == \E b \in ExtOperands : ExtComparing("ext==", b, extended_asset_eq(ea, b))

ExtNe == \E b \in ExtOperands : ExtComparing("ext!=", b, extended_asset_ne(ea, b))

ExtLe == \E b \in ExtOperands : ExtComparing("ext<=", b, extended_asset_le(ea, b))

ExtGe == \E b \in ExtOperands : ExtComparing("ext>=", b, extended_asset_ge(ea, b))

\* ea = r, the copy assignment of an extended_asset a call returned
ExtAssign ==
    /\ Running
    /\ op # Idle
    /\ ret.kind = "extended_asset"
    /\ ea' = [quantity |-> ret.a, contract |-> ret.c]
    /\ op' = Idle
    /\ lhs' = NoArg
    /\ rhs' = NoArg
    /\ ret' = RetVoid
    /\ UNCHANGED <<a, err, ub>>

NextExt ==
    \/ ExtConstruct
    \/ ExtConstructFrom
    \/ ExtNegate
    \/ ExtSub
    \/ ExtAdd
    \/ ExtAddAssign
    \/ ExtSubAssign
    \/ ExtLt
    \/ ExtEq
    \/ ExtNe
    \/ ExtLe
    \/ ExtGe
    \/ ExtAssign
    \/ Continue

SpecExt == Init /\ [][NextExt]_vars

-----------------------------------------------------------------------------
(* Properties *)

InRange(v) == -max_amount <= v /\ v <= max_amount

Sign(v) == IF v < 0 THEN -1 ELSE IF v > 0 THEN 1 ELSE 0

InPlaceOps == {"set_amount", "-=", "+=", "*=", "/="}

\* the asset the last call produced: the receiver, or the returned copy
Result == IF op \in InPlaceOps THEN a ELSE ret.a

\* the asset values that exist after a call that returned
Existing == {a} \cup (IF ret.kind = "asset" THEN {ret.a} ELSE {})

C2_AddSubExact ==
    (/\ op \in {"+", "-", "+=", "-="}
     /\ lhs.a.symbol = rhs.a.symbol
     /\ InRange(lhs.a.amount)
     /\ InRange(rhs.a.amount)) =>
        LET exact == IF op \in {"+", "+="}
                     THEN lhs.a.amount + rhs.a.amount
                     ELSE lhs.a.amount - rhs.a.amount
        IN  /\ ~ub
            /\ exact \in Int64
            /\ (err = NoErr) <=> InRange(exact)
            /\ err = NoErr => Result.amount = exact /\ Result.symbol = lhs.a.symbol
            /\ err # NoErr => err \in RangeErrors

\* max_amount + max_amount is refused as a range error
C2_Witness ==
    /\ op = "+"
    /\ lhs.a.symbol = rhs.a.symbol
    /\ lhs.a.amount = max_amount
    /\ rhs.a.amount = max_amount
    /\ err = "addition overflow"

\* C3: a * s, s * a and a *= s succeed exactly when |a.amount * s| <=
\* max_amount for the unwrapped product, and the result then has that
\* amount (a * 0 is 0, a * 1 is a); otherwise they fail with a range error.
C3_ScaleExact ==
    (op \in {"*", "s*", "*="} /\ InRange(lhs.a.amount)) =>
        LET product == lhs.a.amount * rhs.n
        IN  /\ (err = NoErr) <=> (Abs(product) <= max_amount)
            /\ err = NoErr => Result.amount = product /\ Result.symbol = lhs.a.symbol
            /\ err # NoErr => err \in RangeErrors
            /\ rhs.n = 0 => err = NoErr /\ Result.amount = 0
            /\ rhs.n = 1 => err = NoErr /\ Result = lhs.a
            /\ (lhs.a.amount = max_amount /\ rhs.n = 2) => err \in RangeErrors

\* asset(max_amount) * 2 is refused
C3_Witness ==
    /\ op = "*"
    /\ lhs.a.amount = max_amount
    /\ rhs.n = 2
    /\ err = "multiplication overflow"

\* the digits of n, left-padded with zeros to exactly p digits
Padded(n, p) == [i \in 1..p |-> CharOf((n \div 10^(p - i)) % 10)]

\* the rendering C4 describes
Rendered(x) ==
    LET p == x.symbol.precision
    IN  (IF x.amount < 0 THEN <<"-">> ELSE <<>>)
        \o Decimal(Abs(x.amount) \div 10^p) \o <<".">>
        \o Padded(Abs(x.amount) % 10^p, p) \o <<" ">> \o x.symbol.code

\* C4: to_string() of an asset with a valid symbol is one '-' exactly when
\* the amount is negative, the digits of |amount| div 10^precision, '.',
\* exactly precision zero-padded digits of |amount| mod 10^precision, a
\* space and the symbol code.
C4_ToStringFormat ==
    (op = "to_string" /\ symbol_is_valid(lhs.a.symbol)) => ret.s = Rendered(lhs.a)

ExtComparisons == {"ext==", "ext!=", "ext<", "ext<=", "ext>="}

\* the comparison of the two quantities that an extended_asset comparison delegates to
QuantityComparison ==
    IF op = "ext==" THEN asset_eq(lhs.a, rhs.a)
    ELSE IF op = "ext!=" THEN asset_ne(lhs.a, rhs.a)
    ELSE IF op = "ext<" THEN asset_lt(lhs.a, rhs.a)
    ELSE IF op = "ext<=" THEN asset_le(lhs.a, rhs.a)
    ELSE asset_ge(lhs.a, rhs.a)

\* C5: every comparison of two extended_asset values fails with "type
\* mismatch" and returns no boolean when the contracts differ, and is the
\* asset comparison of the two quantities when they are equal.
C5_OwnershipGate ==
    op \in ExtComparisons =>
        IF lhs.c # rhs.c
        THEN err = MsgTypeMismatch /\ ret.kind # "bool"
        ELSE /\ err = QuantityComparison.err
             /\ err = NoErr => ret.kind = "bool" /\ ret.b = QuantityComparison.val

\* C6: set_amount(v) fails with the range error if |v| > max_amount and with
\* the invalid-symbol error if the asset's symbol is not valid; the stored
\* amount is v if both checks pass and is otherwise what it was.
C6_SetAmountChecks ==
    op = "set_amount" =>
        /\ (err = NoErr) <=> (InRange(rhs.n) /\ symbol_is_valid(lhs.a.symbol))
        /\ err = MsgMagnitude => ~InRange(rhs.n)
        /\ err = MsgInvalidSymbol => ~symbol_is_valid(lhs.a.symbol)
        /\ err \in {NoErr, MsgMagnitude, MsgInvalidSymbol}
        /\ a.amount = IF err = NoErr THEN rhs.n ELSE lhs.a.amount

\* C7: a / s and a /= s fail with divide-by-zero when s = 0 and with signed
\* division overflow when a.amount is the least int64_t and s = -1;
\* otherwise the amount is the quotient truncated toward zero and the symbol
\* is unchanged.  With a.amount in range the overflow never happens and the
\* result is in range.
C7_DivTruncates ==
    op \in {"/", "/="} =>
        LET x == lhs.a.amount
            s == rhs.n
        IN  /\ s = 0 => err = MsgDivZero
            /\ (s # 0 /\ x = MinInt64 /\ s = -1) => err = MsgDivOverflow
            /\ (s # 0 /\ ~(x = MinInt64 /\ s = -1)) =>
                  /\ err = NoErr
                  /\ ~ub
                  /\ Result.amount = Sign(x) * Sign(s) * (Abs(x) \div Abs(s))
                  /\ Result.symbol = lhs.a.symbol
            /\ InRange(x) => err # MsgDivOverflow
            /\ (InRange(x) /\ err = NoErr) => InRange(Result.amount)

\* -7 / 2 is -3, where the floor quotient is -4
C7_Witness ==
    /\ op = "/"
    /\ lhs.a.amount = -7
    /\ rhs.n = 2
    /\ err = NoErr
    /\ ret.a.amount = -3

\* C8: for same-symbol assets with amounts in range a + (-b) and a - b both
\* fail with a range error or both succeed with the same asset; unary minus
\* never fails and maps an amount in range to its negative, in range, with
\* the symbol unchanged.
C8_AddNegIsSub ==
    /\ (op = "-a" /\ InRange(lhs.a.amount)) =>
          /\ err = NoErr
          /\ ~ub
          /\ ret.a.amount = -lhs.a.amount
          /\ InRange(ret.a.amount)
          /\ ret.a.symbol = lhs.a.symbol
    /\ (/\ op = "-"
        /\ lhs.a.symbol = rhs.a.symbol
        /\ InRange(lhs.a.amount)
        /\ InRange(rhs.a.amount)) =>
          \A n \in asset_neg(rhs.a) :
              /\ n.err = NoErr
              /\ ~n.ub
              /\ \A o \in asset_add(lhs.a, n.obj) :
                    \/ o.err \in RangeErrors /\ err \in RangeErrors
                    \/ o.err = NoErr /\ err = NoErr /\ o.obj = ret.a

\* max_amount - (-1) is refused, as max_amount + 1 is
C8_Witness ==
    /\ op = "-"
    /\ lhs.a.symbol = rhs.a.symbol
    /\ lhs.a.amount = max_amount
    /\ rhs.a.amount = -1
    /\ err \in RangeErrors

\* C9: when an in-place arithmetic operator fails, the receiver is what it
\* was before the call, and no amount out of range is stored in it.
C9_ReceiverUnchangedOnFailure ==
    /\ (op \in {"+=", "-=", "*=", "/="} /\ err # NoErr) =>
          a = lhs.a /\ is_amount_within_range(a)
    /\ (op \in {"ext+=", "ext-="} /\ err # NoErr) =>
          /\ ea = [quantity |-> lhs.a, contract |-> lhs.c]
          /\ is_amount_within_range(ea.quantity)

\* C10: when the operands of a binary operation mismatch, it fails with the
\* mismatch error, never with divide-by-zero or a range error; for
\* extended_asset the ownership check precedes the symbol check.
C10_MatchCheckedFirst ==
    /\ (op \in {"+", "-", "+=", "-=", "a/b"} /\ lhs.a.symbol # rhs.a.symbol) =>
          err \in SymbolMismatchErrors
    /\ (op \in {"ext+", "ext-", "ext+=", "ext-="} /\ lhs.c # rhs.c) =>
          err = MsgTypeMismatch
    /\ (op \in {"ext+", "ext-", "ext+=", "ext-="} /\ lhs.c = rhs.c /\ lhs.a.symbol # rhs.a.symbol) =>
          err \in SymbolMismatchErrors

====
